---- MODULE Spec2Model ----
(***************************************************************************)
(* Model of src/src/features/reactPropSync.ts: the bidirectional prop      *)
(* synchronisation that runs on every document save.                       *)
(*                                                                         *)
(* Texts are strings and are scanned character by character: every regular *)
(* expression of the source is translated to a matcher over offsets.       *)
(* Offsets are 0-based as in JavaScript; a failed match is the offset -1.   *)
(***************************************************************************)
EXTENDS Integers, Sequences, FiniteSets, TLC

\* ------------------------------------------------------------------------
\* Characters and strings (JavaScript String and RegExp primitives)
\* ------------------------------------------------------------------------

Upper == {"A","B","C","D","E","F","G","H","I","J","K","L","M",
          "N","O","P","Q","R","S","T","U","V","W","X","Y","Z"}

Lower == {"a","b","c","d","e","f","g","h","i","j","k","l","m",
          "n","o","p","q","r","s","t","u","v","w","x","y","z"}

Digit == {"0","1","2","3","4","5","6","7","8","9"}

\* \w
WordCh == Upper \cup Lower \cup Digit \cup {"_"}

\* [a-zA-Z_]
IdentStart == Upper \cup Lower \cup {"_"}

\* \s
SpaceCh == {" ", "\n", "\t", "\r"}

\* the value v under the name F gives it: every use of the name is a use of
\* one evaluated value
Bind(v, F(_)) == F(v)

\* l when it is a match (an offset other than -1), r otherwise
OrElse(l, r) == IF l # -1 THEN l ELSE r

\* s.substring(a, b)
Sub(s, a, b) == SubSeq(s, a + 1, b)

\* s[i], the empty string past either end
At(s, i) == IF i >= 0 /\ i < Len(s) THEN SubSeq(s, i + 1, i + 1) ELSE ""

\* a literal of a pattern, tried at offset p
Lit(s, p, lit) ==
  IF p >= 0 /\ p + Len(lit) <= Len(s) /\ Sub(s, p, p + Len(lit)) = lit
  THEN p + Len(lit) ELSE -1

\* The searches over a text split the range in two halves, left half first,
\* so that their depth stays logarithmic in the length of the text.

\* the least offset in lo..hi whose character is outside (inside = FALSE) or
\* inside (inside = TRUE) the class, -1 when there is none
RECURSIVE FirstCh(_, _, _, _, _)
FirstCh(s, class, inside, lo, hi) ==
  IF lo > hi THEN -1
  ELSE IF lo = hi THEN (IF (At(s, lo) \in class) = inside THEN lo ELSE -1)
  ELSE OrElse(FirstCh(s, class, inside, lo, (lo + hi) \div 2),
              FirstCh(s, class, inside, (lo + hi) \div 2 + 1, hi))

\* [class]* (greedy), tried at offset p
Star(s, p, class) ==
  IF p < 0 THEN -1
  ELSE OrElse(FirstCh(s, class, FALSE, p, Len(s) - 1), Len(s))

\* [class]+ (greedy)
Plus(s, p, class) ==
  IF p >= 0 /\ p < Len(s) /\ At(s, p) \in class THEN Star(s, p + 1, class) ELSE -1

\* [^class]* (greedy)
StarNot(s, p, class) ==
  IF p < 0 THEN -1
  ELSE OrElse(FirstCh(s, class, TRUE, p, Len(s) - 1), Len(s))

\* s.indexOf(sub, from): offset of the first occurrence, -1 when there is none
RECURSIVE FirstIndexOf(_, _, _, _)
FirstIndexOf(s, sub, lo, hi) ==
  IF lo > hi THEN -1
  ELSE IF lo = hi THEN (IF Sub(s, lo, lo + Len(sub)) = sub THEN lo ELSE -1)
  ELSE OrElse(FirstIndexOf(s, sub, lo, (lo + hi) \div 2),
              FirstIndexOf(s, sub, (lo + hi) \div 2 + 1, hi))

IndexOfFrom(s, sub, from) ==
  FirstIndexOf(s, sub, IF from < 0 THEN 0 ELSE from, Len(s) - Len(sub))

IndexOf(s, sub) == IndexOfFrom(s, sub, 0)

\* s.lastIndexOf(sub)
RECURSIVE LastIndexOfIn(_, _, _, _)
LastIndexOfIn(s, sub, lo, hi) ==
  IF lo > hi THEN -1
  ELSE IF lo = hi THEN (IF Sub(s, lo, lo + Len(sub)) = sub THEN lo ELSE -1)
  ELSE OrElse(LastIndexOfIn(s, sub, (lo + hi) \div 2 + 1, hi),
              LastIndexOfIn(s, sub, lo, (lo + hi) \div 2))

LastIndexOf(s, sub) == LastIndexOfIn(s, sub, 0, Len(s) - Len(sub))

Includes(s, sub) == IndexOf(s, sub) # -1

\* s.trim()
TrimLeft(s) == Sub(s, Star(s, 0, SpaceCh), Len(s))

TrimRight(s) ==
  Sub(s, 0, CHOOSE k \in 0..Len(s) :
              /\ \A j \in k..(Len(s) - 1) : At(s, j) \in SpaceCh
              /\ k = 0 \/ At(s, k - 1) \notin SpaceCh)

Trim(s) == TrimRight(TrimLeft(s))

\* s.split(sep) for a one-character separator
RECURSIVE Split(_, _)
Split(s, sep) ==
  Bind(IndexOf(s, sep), LAMBDA i :
    IF i = -1 THEN <<s>>
    ELSE <<Sub(s, 0, i)>> \o Split(Sub(s, i + 1, Len(s)), sep))

\* parts.join(sep)
RECURSIVE Join(_, _)
Join(parts, sep) ==
  IF Len(parts) = 0 THEN ""
  ELSE IF Len(parts) = 1 THEN parts[1]
  ELSE parts[1] \o sep \o Join(Tail(parts), sep)

\* s.replace(/\?$/, "")
StripOptional(s) ==
  IF Len(s) > 0 /\ At(s, Len(s) - 1) = "?" THEN Sub(s, 0, Len(s) - 1) ELSE s

\* s.replace(/\\/g, "/")
RECURSIVE SlashPathIn(_, _, _)
SlashPathIn(s, lo, hi) ==
  IF lo > hi THEN ""
  ELSE IF lo = hi THEN (IF At(s, lo) = "\\" THEN "/" ELSE At(s, lo))
  ELSE SlashPathIn(s, lo, (lo + hi) \div 2)
       \o SlashPathIn(s, (lo + hi) \div 2 + 1, hi)

SlashPath(s) == SlashPathIn(s, 0, Len(s) - 1)

\* sequence helpers: array.filter, array.includes, Array.from(new Set(array))
SeqToSet(q) == {q[i] : i \in 1..Len(q)}

RECURSIVE Dedup(_)
Dedup(q) ==
  IF Len(q) = 0 THEN <<>>
  ELSE Bind(Dedup(SubSeq(q, 1, Len(q) - 1)), LAMBDA init :
         IF q[Len(q)] \in SeqToSet(init) THEN init ELSE Append(init, q[Len(q)]))

RECURSIVE FilterNotIn(_, _)
FilterNotIn(q, set) ==
  IF Len(q) = 0 THEN <<>>
  ELSE (IF q[1] \in set THEN <<>> ELSE <<q[1]>>) \o FilterNotIn(Tail(q), set)

RECURSIVE FilterNonEmpty(_)
FilterNonEmpty(q) ==
  IF Len(q) = 0 THEN <<>>
  ELSE (IF q[1] = "" THEN <<>> ELSE <<q[1]>>) \o FilterNonEmpty(Tail(q))

\* ------------------------------------------------------------------------
\* Prop normalizer (the chain applied to the captured props group)
\* ------------------------------------------------------------------------

NormalizeOne(p) == Trim(StripOptional(Split(Split(p, "=")[1], ":")[1]))

\* parts.map((p) => p.trim()).filter(Boolean)
TrimAll(parts) == FilterNonEmpty([i \in 1..Len(parts) |-> Trim(parts[i])])

\* parts.map((p) => p.split("=")[0].split(":")[0].replace(/\?$/, "").trim())
\*      .filter(Boolean)
NormalizeAll(parts) ==
  FilterNonEmpty([i \in 1..Len(parts) |-> NormalizeOne(parts[i])])

NormalizeProps(propsRaw) == NormalizeAll(TrimAll(Split(propsRaw, ",")))

\* ------------------------------------------------------------------------
\* Regular expressions of the source
\* ------------------------------------------------------------------------

\* \b at offset p
Boundary(s, p) == (At(s, p - 1) \in WordCh) # (At(s, p) \in WordCh)

\* the component name of a pattern: the class [A-Z][A-Za-z0-9_]* when nm is
\* the empty string (the document scanners), the interpolated name otherwise
NameEnd(s, p, nm) ==
  IF nm = ""
  THEN (IF p >= 0 /\ At(s, p) \in Upper THEN Star(s, p + 1, WordCh) ELSE -1)
  ELSE Lit(s, p, nm)

NoMatch == [index |-> -1, full |-> "", name |-> "", group |-> "", close |-> ""]

\* a match object: index, [0], and the groups (component name, captured text,
\* and the (/?) group of the tag patterns)
MkMatch(s, i, e, n0, n1, g0, g1, cl) ==
  [index |-> i, full |-> Sub(s, i, e), name |-> Sub(s, n0, n1),
   group |-> Sub(s, g0, g1), close |-> cl]

\* \s*\(\s*{   from offset p
ParamOpen(s, p) ==
  Lit(s, Star(s, Lit(s, Star(s, p, SpaceCh), "("), SpaceCh), "{")

\* }\s*\)   from offset p
ParamClose(s, p) == Lit(s, Star(s, Lit(s, p, "}"), SpaceCh), ")")

\* the match object of a definition pattern: the match starts at i, the name
\* spans n0..n1, the group [^}]* spans g0..g1 and the match ends at e
DefMatch(s, i, n0, n1, g0, g1, e) ==
  IF e = -1 THEN NoMatch ELSE MkMatch(s, i, e, n0, n1, g0, g1, "")

\* function\s+NAME\s*\(\s*{([^}]*)}\s*\)   from offset p, the match starting at i
FnTail(s, i, p, nm) ==
  Bind(Plus(s, Lit(s, p, "function"), SpaceCh), LAMBDA n0 :
    IF n0 = -1 THEN NoMatch
    ELSE Bind(NameEnd(s, n0, nm), LAMBDA n1 :
         Bind(ParamOpen(s, n1), LAMBDA g0 :
         Bind(StarNot(s, g0, {"}"}), LAMBDA g1 :
           DefMatch(s, i, n0, n1, g0, g1, ParamClose(s, g1))))))

\* (?:const|let)\s+NAME\s*=\s*\(\s*{([^}]*)}\s*\)\s*=>
ArrowTail(s, i, p, nm) ==
  Bind(Plus(s, OrElse(Lit(s, p, "const"), Lit(s, p, "let")), SpaceCh), LAMBDA n0 :
    IF n0 = -1 THEN NoMatch
    ELSE Bind(NameEnd(s, n0, nm), LAMBDA n1 :
         Bind(ParamOpen(s, Lit(s, Star(s, n1, SpaceCh), "=")), LAMBDA g0 :
         Bind(StarNot(s, g0, {"}"}), LAMBDA g1 :
           DefMatch(s, i, n0, n1, g0, g1,
                    Lit(s, Star(s, ParamClose(s, g1), SpaceCh), "=>"))))))

DefTail(s, i, p, nm, form) ==
  IF p = -1 THEN NoMatch
  ELSE IF form = "function" THEN FnTail(s, i, p, nm) ELSE ArrowTail(s, i, p, nm)

\* l when it is a match, r otherwise
OrElseMatch(l, r) == IF l.index # -1 THEN l ELSE r

\* (?:export\s+default\s+|export\s+)? followed by the rest of the pattern:
\* the alternatives in the order the engine tries them
\* (a match starts with the first letter of export, function, const or let)
DefAt(s, i, nm, form) ==
  IF At(s, i) \notin {"e", "f", "c", "l"} THEN NoMatch
  ELSE Bind(Plus(s, Lit(s, i, "export"), SpaceCh), LAMBDA ex :
         OrElseMatch(
           DefTail(s, i, Plus(s, Lit(s, ex, "default"), SpaceCh), nm, form),
           OrElseMatch(DefTail(s, i, ex, nm, form), DefTail(s, i, i, nm, form))))

\* the leftmost match of a definition pattern that starts in lo..hi
RECURSIVE DefExecIn(_, _, _, _, _)
DefExecIn(s, nm, form, lo, hi) ==
  IF lo > hi THEN NoMatch
  ELSE IF lo = hi THEN DefAt(s, lo, nm, form)
  ELSE OrElseMatch(DefExecIn(s, nm, form, lo, (lo + hi) \div 2),
                   DefExecIn(s, nm, form, (lo + hi) \div 2 + 1, hi))

\* regex.exec(text) with lastIndex = from: the leftmost match at or after from
DefExec(s, from, nm, form) == DefExecIn(s, nm, form, from, Len(s))

\* the match object of a tag pattern: the name spans n0..n1 and the first ">"
\* at or after n1 is at gt
TagMatch(s, i, n0, n1, gt) ==
  IF gt = -1 THEN NoMatch
  ELSE IF gt - 1 >= n1 /\ At(s, gt - 1) = "/"
  THEN MkMatch(s, i, gt + 1, n0, n1, n1, gt - 1, "/")
  ELSE MkMatch(s, i, gt + 1, n0, n1, n1, gt, "")

\* the first ">" after a name that ends at n1, at a word boundary
TagClose(s, n1) ==
  IF n1 = -1 \/ ~Boundary(s, n1) THEN -1 ELSE IndexOfFrom(s, ">", n1)

\* <NAME\b([\s\S]*?)(\/?)>   tried at offset i
TagAt(s, i, nm) ==
  Bind(Lit(s, i, "<"), LAMBDA n0 :
    IF n0 = -1 THEN NoMatch
    ELSE Bind(NameEnd(s, n0, nm), LAMBDA n1 :
           TagMatch(s, i, n0, n1, TagClose(s, n1))))

RECURSIVE TagExecIn(_, _, _, _)
TagExecIn(s, nm, lo, hi) ==
  IF lo > hi THEN NoMatch
  ELSE IF lo = hi THEN TagAt(s, lo, nm)
  ELSE OrElseMatch(TagExecIn(s, nm, lo, (lo + hi) \div 2),
                   TagExecIn(s, nm, (lo + hi) \div 2 + 1, hi))

TagExec(s, from, nm) == TagExecIn(s, nm, from, Len(s))

\* \b([a-zA-Z_][A-Za-z0-9_]*)   tried at offset i: the end of the name
PropNameEnd(s, i) ==
  IF Boundary(s, i) /\ At(s, i) \in IdentStart THEN Star(s, i + 1, WordCh) ELSE -1

\* \b([a-zA-Z_][A-Za-z0-9_]*)\s*=   tried at offset i: the end of the match
PropAt(s, i) == Lit(s, Star(s, PropNameEnd(s, i), SpaceCh), "=")

\* the least offset in lo..hi where propRegex matches, -1 when there is none
RECURSIVE PropExecIn(_, _, _)
PropExecIn(s, lo, hi) ==
  IF lo > hi THEN -1
  ELSE IF lo = hi THEN (IF PropAt(s, lo) # -1 THEN lo ELSE -1)
  ELSE OrElse(PropExecIn(s, lo, (lo + hi) \div 2),
              PropExecIn(s, (lo + hi) \div 2 + 1, hi))

\* the while loop over propRegex.exec(attrs): the names in match order
RECURSIVE PropNamesFrom(_, _)
PropNamesFrom(s, from) ==
  Bind(PropExecIn(s, from, Len(s)), LAMBDA i :
    IF i = -1 THEN <<>>
    ELSE <<Sub(s, i, PropNameEnd(s, i))>> \o PropNamesFrom(s, PropAt(s, i)))

\* the text of a prop used as a pattern: "." is any character but a line
\* terminator, "$" is the end of the input, every other character of the
\* model's texts is a literal
RECURSIVE PropPattern(_, _, _)
PropPattern(s, p, pat) ==
  IF p < 0 \/ Len(pat) = 0 THEN p
  ELSE IF At(pat, 0) = "." THEN
         (IF p < Len(s) /\ At(s, p) \notin {"\n", "\r"}
          THEN PropPattern(s, p + 1, Sub(pat, 1, Len(pat))) ELSE -1)
  ELSE IF At(pat, 0) = "$" THEN
         (IF p = Len(s) THEN PropPattern(s, p, Sub(pat, 1, Len(pat))) ELSE -1)
  ELSE PropPattern(s, Lit(s, p, At(pat, 0)), Sub(pat, 1, Len(pat)))

\* new RegExp(`\\b${prop}\\s*=`).test(attrs)
PropTest(attrs, prop) ==
  \E i \in 0..Len(attrs) :
     /\ Boundary(attrs, i)
     /\ Lit(attrs, Star(attrs, PropPattern(attrs, i, prop), SpaceCh), "=") # -1

\* ------------------------------------------------------------------------
\* Document scanners and the test-file heuristic
\* ------------------------------------------------------------------------

\* one while loop of getComponentsInDocument: every match of one pattern
RECURSIVE DefsFrom(_, _, _)
DefsFrom(text, from, form) ==
  Bind(DefExec(text, from, "", form), LAMBDA m :
    IF m.index = -1 THEN <<>>
    ELSE <<[name |-> m.name, props |-> NormalizeProps(m.group)]>>
         \o DefsFrom(text, m.index + Len(m.full), form))

\* function declarations first, arrow functions after them
getComponentsInDocument(text) ==
  DefsFrom(text, 0, "function") \o DefsFrom(text, 0, "arrow")

\* if (propsSet.size) usages.push({componentName, props: Array.from(propsSet)})
UsageOf(componentName, propsSet) ==
  IF Len(propsSet) > 0
  THEN <<[componentName |-> componentName, props |-> propsSet]>> ELSE <<>>

RECURSIVE UsagesFrom(_, _)
UsagesFrom(text, from) ==
  Bind(TagExec(text, from, ""), LAMBDA m :
    IF m.index = -1 THEN <<>>
    ELSE UsageOf(m.name, Dedup(PropNamesFrom(m.group, 0)))
         \o UsagesFrom(text, m.index + Len(m.full)))

getUsagesInDocument(text) == UsagesFrom(text, 0)

\* a heuristic that looks at the path as the platform gives it
isTestFileAsGiven(fsPath) ==
  \/ Includes(fsPath, ".test.") \/ Includes(fsPath, ".spec.")
  \/ Includes(fsPath, "/__tests__/") \/ Includes(fsPath, "/tests/")
  \/ Includes(fsPath, "/test/")

isTestFile(fsPath) ==
  Bind(SlashPath(fsPath), LAMBDA path :
    \/ Includes(path, ".test.") \/ Includes(path, ".spec.")
    \/ Includes(path, "/__tests__/") \/ Includes(path, "/tests/")
    \/ Includes(path, "/test/"))

\* ------------------------------------------------------------------------
\* The editor: file enumeration, positions, and edit application
\* ------------------------------------------------------------------------

EndsWith(s, suffix) ==
  Len(s) >= Len(suffix) /\ Sub(s, Len(s) - Len(suffix), Len(s)) = suffix

\* the include glob **/*.{tsx,jsx,ts,js} and the exclude glob **/node_modules/**
GlobMatch(fsPath) ==
  Bind(SlashPath(fsPath), LAMBDA path :
    /\ \E ext \in {".tsx", ".jsx", ".ts", ".js"} : EndsWith(path, ext)
    /\ ~Includes(path, "/node_modules/"))

RECURSIVE FindFilesFrom(_, _)
FindFilesFrom(fs, k) ==
  IF k > Len(fs) THEN <<>>
  ELSE (IF GlobMatch(fs[k].path) THEN <<k>> ELSE <<>>) \o FindFilesFrom(fs, k + 1)

\* vscode.workspace.findFiles: the uris (indexes of the workspace) that match
FindFiles(fs) == FindFilesFrom(fs, 1)

Clamp(v, lo, hi) == IF v < lo THEN lo ELSE IF v > hi THEN hi ELSE v

\* the number of line breaks of s from offset `from` on
RECURSIVE CountNewlines(_, _)
CountNewlines(s, from) ==
  Bind(IndexOfFrom(s, "\n", from), LAMBDA i :
    IF i = -1 THEN 0 ELSE 1 + CountNewlines(s, i + 1))

\* the position of the end of the text `before`
EndPosition(before) ==
  [line |-> CountNewlines(before, 0),
   character |-> Len(before) - (LastIndexOf(before, "\n") + 1)]

\* doc.positionAt(offset)
PositionAt(text, offset) == EndPosition(Sub(text, 0, Clamp(offset, 0, Len(text))))

\* the offset of the first character of line n, -1 when the text is shorter
RECURSIVE LineStart(_, _, _)
LineStart(text, n, from) ==
  IF n = 0 THEN from
  ELSE Bind(IndexOfFrom(text, "\n", from), LAMBDA i :
         IF i = -1 THEN -1 ELSE LineStart(text, n - 1, i + 1))

\* the offset of `character` in the line that starts at `start`
OffsetInLine(text, start, character) ==
  IF start = -1 THEN Len(text)
  ELSE Clamp(start + character, start,
             OrElse(IndexOfFrom(text, "\n", start), Len(text)))

\* the offset the editor gives a position when it applies an edit
OffsetAt(text, pos) == OffsetInLine(text, LineStart(text, pos.line, 0), pos.character)

\* the text with edit es[k] applied
ApplyOne(text, es, k) ==
  Sub(text, 0, es[k].s) \o es[k].text \o Sub(text, es[k].e, Len(text))

\* es without its k-th element
Without(es, k) ==
  [j \in 1..(Len(es) - 1) |-> IF j < k THEN es[j] ELSE es[j + 1]]

\* the text edits of one file, applied to one snapshot of it: the edit with
\* the greatest start offset first, so that the other offsets stay valid
RECURSIVE ApplyTextEdits(_, _)
ApplyTextEdits(text, es) ==
  IF Len(es) = 0 THEN text
  ELSE Bind(CHOOSE i \in 1..Len(es) :
              \A j \in 1..Len(es) :
                 es[j].s < es[i].s \/ (es[j].s = es[i].s /\ j <= i),
            LAMBDA k : ApplyTextEdits(ApplyOne(text, es, k), Without(es, k)))

RECURSIVE EditsOf(_, _, _)
EditsOf(edit, uri, text) ==
  IF Len(edit) = 0 THEN <<>>
  ELSE (IF edit[1].uri = uri
        THEN <<[s |-> OffsetAt(text, edit[1].start),
                e |-> OffsetAt(text, edit[1].end), text |-> edit[1].text]>>
        ELSE <<>>) \o EditsOf(Tail(edit), uri, text)

\* vscode.workspace.applyEdit(edit)
ApplyEdit(fs, edit) ==
  [i \in 1..Len(fs) |->
     [fs[i] EXCEPT !.text = ApplyTextEdits(@, EditsOf(edit, i, @))]]

\* ------------------------------------------------------------------------
\* syncComponentPropsUsages: the scan of one document
\* ------------------------------------------------------------------------

RECURSIVE MissingProps(_, _)
MissingProps(props, attrs) ==
  IF Len(props) = 0 THEN <<>>
  ELSE (IF PropTest(attrs, props[1]) THEN <<>> ELSE <<props[1]>>)
       \o MissingProps(Tail(props), attrs)

RECURSIVE InsertText(_)
InsertText(missing) ==
  IF Len(missing) = 0 THEN ""
  ELSE " " \o missing[1] \o "={/* TODO: completar */}" \o InsertText(Tail(missing))

\* an insertion that is always placed right before the ">"
InsertOffsetBeforeGt(m) == m.index + Len(m.full) - 1

\* the offset of the insertion for one match of the tag pattern:
\* tagRegex.lastIndex - (fullMatch.length - localIndexOfClose)
InsertOffset(m) ==
  (m.index + Len(m.full))
  - (Len(m.full) - LastIndexOf(m.full, IF m.close = "/" THEN "/>" ELSE ">"))

\* edit.insert(uri, insertPosition, insertText), when props are missing
Insertion(uri, pos, missing) ==
  IF Len(missing) = 0 THEN <<>>
  ELSE <<[uri |-> uri, start |-> pos, end |-> pos, text |-> InsertText(missing)]>>

\* the while loop over tagRegex.exec(text): the insertions for one document
RECURSIVE ScanTags(_, _, _, _, _)
ScanTags(text, from, uri, componentName, props) ==
  Bind(TagExec(text, from, componentName), LAMBDA m :
    IF m.index = -1 THEN <<>>
    ELSE Insertion(uri, PositionAt(text, InsertOffset(m)),
                   MissingProps(props, m.group))
         \o ScanTags(text, m.index + Len(m.full), uri, componentName, props))

\* ------------------------------------------------------------------------
\* The workspace
\* ------------------------------------------------------------------------

MaxFiles == 2
MaxSaves == 2
MaxHandlers == 2

Handlers == 1..MaxHandlers

File(path, languageId, text) ==
  [path |-> path, languageId |-> languageId, text |-> text]

\* the documents the workspaces of the model are made of, in enumeration order
FilePool ==
  << File("/w/src/Deck.jsx", "javascriptreact",
          "let Card = ({ title }) => 1\nfunction Card({ title }) {}\n<Card title=\"1\" c=\"2\"/>"),
     File("/w/src/Card.tsx", "typescriptreact",
          "export function Card({ title, onClick }) {}\n<Card title=\"x\" />"),
     File("/w/src/Btn.jsx", "javascriptreact",
          "const Btn = ({ label }) => {}\nfunction Nada({}) {}"),
     File("/w/src/App.tsx", "typescriptreact",
          "<Btn label=\"a\" variant=\"b\" />\n<Ghost a=\"1\"/><Btn label=\"c\" size=\"1\"/><Btn/>"),
     File("/w/src/Modal.js", "javascript",
          "function Modal({ open, onClose = f }) {}\n<Modal open=\"1\"/><Modal open=\"1\"\n onClose={f}/>"),
     File("/w/src/Btn.test.tsx", "typescriptreact",
          "function Btn({ zz }) {}\n<Btn label=\"t\"/><Card />"),
     File("C:\\w\\__tests__\\Card.jsx", "javascriptreact",
          "let Card = ({ inTest }) => 1\n<Card/><Modal open=\"1\"/>"),
     File("/w/src/Icon.ts", "typescript",
          "function Icon({on}) {}\n<Icon on=\"1\" size=\"2\"/>"),
     File("/w/src/Row.jsx", "javascriptreact",
          "export default function Row({ id, ...rest }) {}\n<Row id=\"1\"/>"),
     File("/w/src/Tab.jsx", "javascriptreact",
          "const Tab = ({ a: x, a: y }) => {}\n<Tab a=\"1\"/>"),
     File("/w/src/app.css", "css", ".Card { color: red }") >>

\* the workspaces: up to MaxFiles documents of the pool, in pool order
RECURSIVE Pick(_, _)
Pick(set, k) ==
  IF k > Len(FilePool) THEN <<>>
  ELSE (IF k \in set THEN <<FilePool[k]>> ELSE <<>>) \o Pick(set, k + 1)

\* the documents of the pool that belong to one project: those that define or
\* use the components of one another, and the stand-alone ones
MainProject == 1..7

Projects == { MainProject, 8..11 }

Workspaces ==
  { Pick(set, 1) : set \in { t \in SUBSET (1..Len(FilePool)) :
                               /\ Cardinality(t) \in 1..MaxFiles
                               /\ \E p \in Projects : t \subseteq p } }

\* ------------------------------------------------------------------------
\* State
\* ------------------------------------------------------------------------

VARIABLES
  files,   \* the workspace: the documents and their current text
  hs,      \* the save-event handlers: locals and position of each
  saves,   \* the number of save events so far
  resumed  \* the resumptions of each handler, counted modulo 2

vars == <<files, hs, saves, resumed>>

applyLabelUsages == "Aplicar cambios en los usos"
applyLabelDefinition == "Actualizar definición y usos"
cancelLabel == "Cancelar"
\* the prompt was dismissed
Undefined == "undefined"

LanguageIds == {"javascriptreact", "typescriptreact", "javascript", "typescript"}

\* an entry of a handler's history: what it did, in which protocol, for
\* which component, and with which props, answer or edit
Ev(ev, kind, name, props, choice, edit) ==
  [ev |-> ev, kind |-> kind, name |-> name, props |-> props,
   choice |-> choice, edit |-> edit]

Log(r, ev, kind, name, props, choice, edit) ==
  Append(r.log, Ev(ev, kind, name, props, choice, edit))

IdleHandler ==
  [pc |-> "idle", doc |-> 0, components |-> <<>>, ci |-> 0,
   usages |-> <<>>, ui |-> 0, seen |-> {},
   caller |-> "", componentName |-> "", props |-> <<>>,
   fileList |-> <<>>, fi |-> 0, edit |-> <<>>, hasChanges |-> FALSE,
   usage |-> [componentName |-> "", props |-> <<>>],
   targetUri |-> 0, match |-> NoMatch, propsRaw |-> "", allProps |-> <<>>,
   texts0 |-> <<>>, snapshot |-> <<>>, log |-> <<>>]

Texts(fs) == [i \in 1..Len(fs) |-> fs[i].text]

\* ------------------------------------------------------------------------
\* Control flow between two suspension points.  Each operator gives the
\* handler as it is when it next suspends (or is idle again).
\* ------------------------------------------------------------------------

\* the call of syncComponentPropsUsages, up to its await of findFiles
CallUsages(r, componentName, props, caller, fs) ==
  [r EXCEPT !.pc = "u_find", !.caller = caller,
            !.componentName = componentName, !.props = props,
            !.fileList = <<>>, !.fi = 0, !.edit = <<>>, !.hasChanges = FALSE,
            !.texts0 = Texts(fs),
            !.snapshot = [i \in 1..Len(fs) |-> ""],
            !.log = Log(r, "call", "usages", componentName, props, "", <<>>)]

\* the call of syncDefinitionFromUsage, up to its await of findFiles
CallDefinition(r, usage) ==
  [r EXCEPT !.pc = "d_find", !.usage = usage,
            !.fileList = <<>>, !.fi = 0, !.edit = <<>>,
            !.targetUri = 0, !.match = NoMatch, !.propsRaw = "", !.allProps = <<>>,
            !.log = Log(r, "call", "definition", usage.componentName,
                        usage.props, "", <<>>)]

\* the least index of a set of indexes, 0 when the set is empty
Least(todo) == IF todo = {} THEN 0 ELSE CHOOSE j \in todo : \A i \in todo : j <= i

\* a loop that forgets which components it has seen
NextUsageUnseen(usages, k, seen) ==
  Least({j \in k..Len(usages) : Len(usages[j].props) > 0})

\* the index of the next usage the second loop does not skip, 0 at its end
NextUsage(usages, k, seen) ==
  Least({j \in k..Len(usages) :
           Len(usages[j].props) > 0 /\ usages[j].componentName \notin seen})

\* the loop over the usages, from index k
UsageLoop(r, k) ==
  Bind(NextUsage(r.usages, k, r.seen), LAMBDA j :
    IF j = 0 THEN [r EXCEPT !.pc = "idle"]
    ELSE CallDefinition([r EXCEPT !.ui = j,
                                  !.seen = @ \cup {r.usages[j].componentName}],
                        r.usages[j]))

\* 2) usages -> definition: the scan of the saved document and the loop
UsagePhase(r, fs) ==
  Bind(getUsagesInDocument(fs[r.doc].text), LAMBDA usages :
    IF Len(usages) = 0 THEN [r EXCEPT !.pc = "idle"]
    ELSE UsageLoop([r EXCEPT !.usages = usages, !.ui = 0, !.seen = {}], 1))

\* a loop that calls syncComponentPropsUsages for the components without
\* props too
NextComponentAny(components, k) == Least(k..Len(components))

\* the index of the next component with props, 0 at the end of the loop
NextComponent(components, k) ==
  Least({j \in k..Len(components) : Len(components[j].props) > 0})

\* 1) definition -> usages: the loop over the components, from index k
ComponentLoop(r, k, fs) ==
  Bind(NextComponent(r.components, k), LAMBDA j :
    IF j = 0 THEN UsagePhase(r, fs)
    ELSE CallUsages([r EXCEPT !.ci = j], r.components[j].name,
                    r.components[j].props, "save", fs))

\* syncDefinitionFromUsage returns
ReturnDefinition(r) ==
  UsageLoop([r EXCEPT !.log = Log(r, "return", "definition",
                                  r.usage.componentName, <<>>, "", <<>>)],
            r.ui + 1)

\* a propagation to the usages that, called for an updated definition, goes
\* on to synchronise the definition from the usage again
ReturnUsagesRecursing(r, fs) ==
  IF r.caller = "save"
  THEN ComponentLoop([r EXCEPT !.log = Log(r, "return", "usages",
                                           r.componentName, <<>>, "", <<>>)],
                     r.ci + 1, fs)
  ELSE CallDefinition(r, r.usage)

\* syncComponentPropsUsages returns, to the save handler or to
\* syncDefinitionFromUsage
ReturnUsages(r, fs) ==
  Bind([r EXCEPT !.log = Log(r, "return", "usages", r.componentName,
                             <<>>, "", <<>>)], LAMBDA r1 :
    IF r.caller = "save" THEN ComponentLoop(r1, r.ci + 1, fs)
    ELSE ReturnDefinition(r1))

\* a loop that opens the test files too
NextFileAny(fs, fileList, k) == Least(k..Len(fileList))

\* the index in fileList of the next file that is not a test file, 0 at the end
NextFile(fs, fileList, k) ==
  Least({j \in k..Len(fileList) : ~isTestFile(fs[fileList[j]].path)})

\* a loop that asks as soon as one file has given an insertion
UsagesFileLoopEager(r, k, fs) ==
  IF r.hasChanges
  THEN [r EXCEPT !.pc = "u_ask",
                 !.log = Log(r, "ask", "usages", r.componentName, r.props,
                             "", r.edit)]
  ELSE Bind(NextFile(fs, r.fileList, k), LAMBDA j :
         IF j # 0 THEN [r EXCEPT !.pc = "u_open", !.fi = j]
         ELSE ReturnUsages(r, fs))

\* syncComponentPropsUsages: the loop over the files, from index k, and what
\* follows the loop
UsagesFileLoop(r, k, fs) ==
  Bind(NextFile(fs, r.fileList, k), LAMBDA j :
    IF j # 0 THEN [r EXCEPT !.pc = "u_open", !.fi = j]
    ELSE IF ~r.hasChanges THEN ReturnUsages(r, fs)
    ELSE [r EXCEPT !.pc = "u_ask",
                   !.log = Log(r, "ask", "usages", r.componentName, r.props,
                               "", r.edit)])

\* syncDefinitionFromUsage after the loop over the files
\* sameLength && defProps.every((p, i) => p === allProps[i])
sameContent(defProps, allProps) ==
  /\ Len(allProps) = Len(defProps)
  /\ \A i \in 1..Len(defProps) : defProps[i] = allProps[i]

\* syncDefinitionFromUsage from the merge of the props to the prompt
Merge(r, defProps, allProps) ==
  IF sameContent(defProps, allProps) THEN ReturnDefinition(r)
  ELSE [r EXCEPT !.pc = "d_ask", !.allProps = allProps,
                 !.log = Log(r, "ask", "definition", r.usage.componentName,
                             FilterNotIn(r.usage.props, SeqToSet(defProps)),
                             "", <<>>)]

AfterLocate(r) ==
  IF r.targetUri = 0 \/ r.propsRaw = "" \/ r.match.index = -1
  THEN ReturnDefinition(r)
  ELSE Bind(NormalizeProps(r.propsRaw), LAMBDA defProps :
         Merge(r, defProps, Dedup(defProps \o r.usage.props)))

\* syncDefinitionFromUsage: the loop over the files, from index k
DefinitionFileLoop(r, k, fs) ==
  Bind(NextFile(fs, r.fileList, k), LAMBDA j :
    IF j # 0 THEN [r EXCEPT !.pc = "d_open", !.fi = j] ELSE AfterLocate(r))

\* ------------------------------------------------------------------------
\* Actions: one per resumption of a handler
\* ------------------------------------------------------------------------

Init ==
  /\ files \in Workspaces
  /\ hs = [h \in Handlers |-> IdleHandler]
  /\ saves = 0
  /\ resumed = [h \in Handlers |-> 0]

\* the handler of a save of document d, up to its first await
OnSave(d, fs) ==
  Bind([IdleHandler EXCEPT
          !.doc = d,
          !.log = <<Ev("save", "", fs[d].path, <<>>, "", <<>>)>>], LAMBDA r :
    IF fs[d].languageId \notin LanguageIds THEN r
    ELSE ComponentLoop(
           [r EXCEPT !.components = getComponentsInDocument(fs[d].text)], 1, fs))

\* onDidSaveTextDocument fires for document d and handler h runs up to its
\* first await
SaveEvent(h, d) ==
  /\ hs[h].pc = "idle"
  /\ saves < MaxSaves
  /\ d \in 1..Len(files)
  /\ saves' = saves + 1
  /\ hs' = [hs EXCEPT ![h] = OnSave(d, files)]
  /\ UNCHANGED <<files, resumed>>

\* a save event while no other save event is being handled (the idle
\* handlers are interchangeable: the first one takes it)
Save(h, d) ==
  /\ \A g \in Handlers : hs[g].pc = "idle"
  /\ h = 1
  /\ SaveEvent(h, d)

\* syncComponentPropsUsages: findFiles resolves
UFind(h) ==
  /\ hs[h].pc = "u_find"
  /\ hs' = [hs EXCEPT ![h] =
       UsagesFileLoop([hs[h] EXCEPT !.fileList = FindFiles(files)], 1, files)]
  /\ UNCHANGED <<files, saves>>

\* syncComponentPropsUsages: the body of the loop for the document uri
Scanned(r, uri, fs) ==
  Bind(ScanTags(fs[uri].text, 0, uri, r.componentName, r.props), LAMBDA new :
    UsagesFileLoop([r EXCEPT !.edit = @ \o new,
                             !.hasChanges = @ \/ Len(new) > 0,
                             !.snapshot[uri] = fs[uri].text],
                   r.fi + 1, fs))

\* a pass that applies the insertions of each document as soon as it has
\* scanned it
UOpenApplying(h) ==
  /\ hs[h].pc = "u_open"
  /\ hs' = [hs EXCEPT ![h] = Scanned(hs[h], hs[h].fileList[hs[h].fi], files)]
  /\ files' = ApplyEdit(files, ScanTags(files[hs[h].fileList[hs[h].fi]].text, 0,
                                        hs[h].fileList[hs[h].fi],
                                        hs[h].componentName, hs[h].props))
  /\ UNCHANGED saves

\* syncComponentPropsUsages: openTextDocument resolves and the document is
\* scanned
UOpen(h) ==
  /\ hs[h].pc = "u_open"
  /\ hs' = [hs EXCEPT ![h] = Scanned(hs[h], hs[h].fileList[hs[h].fi], files)]
  /\ UNCHANGED <<files, saves>>

\* a handler that only takes the cancel label for a refusal
DeclinedOnlyCancelled(choice, applyLabel) == choice = cancelLabel

\* a handler that only takes a dismissed prompt for a refusal
DeclinedOnlyDismissed(choice, applyLabel) == choice = Undefined

\* choice !== applyLabel
Declined(choice, applyLabel) == choice # applyLabel

\* syncComponentPropsUsages from the answer of the prompt on
UsagesAnswered(r, choice, fs) ==
  Bind([r EXCEPT !.log = Log(r, "answer", "usages", r.componentName,
                             <<>>, choice, <<>>)], LAMBDA r1 :
    IF Declined(choice, applyLabelUsages) THEN ReturnUsages(r1, fs)
    ELSE [r1 EXCEPT !.pc = "u_apply",
                    !.log = Log(r1, "apply", "usages", r.componentName,
                                <<>>, "", r.edit)])

\* syncComponentPropsUsages: the prompt is answered
UAnswer(h, choice) ==
  /\ hs[h].pc = "u_ask"
  /\ hs' = [hs EXCEPT ![h] = UsagesAnswered(hs[h], choice, files)]
  /\ UNCHANGED <<files, saves>>

\* every edit of the set targets a file whose text is the text the handler
\* read when it computed the edit
OnSnapshot(fs, r) ==
  \A k \in 1..Len(r.edit) : fs[r.edit[k].uri].text = r.snapshot[r.edit[k].uri]

\* a pass that drops its edit set when a target file has changed since it
\* was read
UApplyIfFresh(h) ==
  /\ hs[h].pc = "u_apply"
  /\ files' = IF OnSnapshot(files, hs[h]) THEN ApplyEdit(files, hs[h].edit)
              ELSE files
  /\ hs' = [hs EXCEPT ![h] = ReturnUsages(hs[h], files')]
  /\ UNCHANGED saves

\* syncComponentPropsUsages: applyEdit resolves
UApply(h) ==
  /\ hs[h].pc = "u_apply"
  /\ files' = ApplyEdit(files, hs[h].edit)
  /\ hs' = [hs EXCEPT ![h] = ReturnUsages(hs[h], files')]
  /\ UNCHANGED saves

\* syncDefinitionFromUsage: findFiles resolves
DFind(h) ==
  /\ hs[h].pc = "d_find"
  /\ hs' = [hs EXCEPT ![h] =
       DefinitionFileLoop([hs[h] EXCEPT !.fileList = FindFiles(files)], 1, files)]
  /\ UNCHANGED <<files, saves>>

\* a locator that tries the arrow pattern first
LocateArrowFirst(text, componentName) ==
  OrElseMatch(DefExec(text, 0, componentName, "arrow"),
              DefExec(text, 0, componentName, "function"))

\* for (const pattern of patterns): the first pattern that matches the text
Locate(text, componentName) ==
  OrElseMatch(DefExec(text, 0, componentName, "function"),
              DefExec(text, 0, componentName, "arrow"))

\* syncDefinitionFromUsage: the body of the loop for the document uri
Located(r, uri, fs) ==
  Bind(Locate(fs[uri].text, r.usage.componentName), LAMBDA m :
    IF m.index # -1
    THEN AfterLocate([r EXCEPT !.targetUri = uri, !.match = m,
                               !.propsRaw = m.group,
                               !.snapshot = [i \in 1..Len(fs) |->
                                               IF i = uri THEN fs[uri].text ELSE ""]])
    ELSE DefinitionFileLoop(r, r.fi + 1, fs))

\* syncDefinitionFromUsage: openTextDocument resolves and the two patterns
\* are tried, the function pattern first
DOpen(h) ==
  /\ hs[h].pc = "d_open"
  /\ hs' = [hs EXCEPT ![h] = Located(hs[h], hs[h].fileList[hs[h].fi], files)]
  /\ UNCHANGED <<files, saves>>

\* syncDefinitionFromUsage from the answer of the prompt on
DefinitionAnswered(r, choice) ==
  Bind([r EXCEPT !.log = Log(r, "answer", "definition",
                             r.usage.componentName, <<>>, choice, <<>>)],
       LAMBDA r1 :
    IF Declined(choice, applyLabelDefinition) THEN ReturnDefinition(r1)
    ELSE [r1 EXCEPT !.pc = "d_reopen"])

\* syncDefinitionFromUsage: the prompt is answered
DAnswer(h, choice) ==
  /\ hs[h].pc = "d_ask"
  /\ hs' = [hs EXCEPT ![h] = DefinitionAnswered(hs[h], choice)]
  /\ UNCHANGED <<files, saves>>

\* the offset of the captured props in the document:
\* match.index + fullMatch.indexOf(propsRaw)
propStartOffset(r) == r.match.index + IndexOf(r.match.full, r.propsRaw)

\* edit.replace(targetUri, new Range(startPos, endPos), newPropsString)
ReplaceRange(r, text, start) ==
  <<[uri |-> r.targetUri,
     start |-> PositionAt(text, start),
     end |-> PositionAt(text, start + Len(r.propsRaw)),
     text |-> Join(r.allProps, ", ")]>>

Replacement(r, text) == ReplaceRange(r, text, propStartOffset(r))

\* syncDefinitionFromUsage: openTextDocument(targetUri) resolves and the
\* replacement is built
DReopen(h) ==
  /\ hs[h].pc = "d_reopen"
  /\ hs' = [hs EXCEPT ![h] =
       Bind(Replacement(hs[h], files[hs[h].targetUri].text), LAMBDA edit :
         [hs[h] EXCEPT !.pc = "d_apply", !.edit = edit,
                       !.log = Log(hs[h], "apply", "definition",
                                   hs[h].usage.componentName, hs[h].allProps,
                                   "", edit)])]
  /\ UNCHANGED <<files, saves>>

\* syncDefinitionFromUsage: applyEdit resolves and the usages are synchronised
DApply(h) ==
  /\ hs[h].pc = "d_apply"
  /\ files' = ApplyEdit(files, hs[h].edit)
  /\ hs' = [hs EXCEPT ![h] =
       CallUsages(hs[h], hs[h].usage.componentName, hs[h].allProps,
                  "definition", files')]
  /\ UNCHANGED saves

\* handler h is resumed: the operation it awaits resolves
Resume(h) ==
  /\ hs[h].pc # "idle"
  /\ resumed' = [resumed EXCEPT ![h] = 1 - @]

Step(h) ==
  /\ Resume(h)
  /\ \/ UFind(h)
     \/ UOpen(h)
     \/ \E c \in {applyLabelUsages, cancelLabel, Undefined} : UAnswer(h, c)
     \/ UApply(h)
     \/ DFind(h)
     \/ DOpen(h)
     \/ \E c \in {applyLabelDefinition, cancelLabel, Undefined} : DAnswer(h, c)
     \/ DReopen(h)
     \/ DApply(h)

Next ==
  \/ \E h \in Handlers : \E d \in 1..Len(files) : Save(h, d)
  \/ \E h \in Handlers : Step(h)

Spec == Init /\ [][Next]_vars

\* ------------------------------------------------------------------------
\* Properties
\* ------------------------------------------------------------------------

AcceptLabel(kind) ==
  IF kind = "usages" THEN applyLabelUsages ELSE applyLabelDefinition

\* positions a < b of a history lie in the same instance of the protocol
\* `kind`: no call and no return of that protocol after a, up to b
SameInstance(log, kind, a, b) ==
  \A k \in (a + 1)..b :
     ~(log[k].kind = kind /\ log[k].ev \in {"call", "return"})

\* C1: applyEdit is called only right after the prompt of the same protocol
\* instance was answered with its accept label, and an instance whose prompt
\* got any other answer never calls applyEdit.
C1_ApplyOnlyAfterAccept ==
  \A h \in Handlers :
    LET log == hs[h].log IN
    /\ \A i \in 1..Len(log) :
         log[i].ev = "apply" =>
           \E c \in 1..(i - 1), q \in 1..(i - 1), a \in 1..(i - 1) :
              /\ c < q /\ q < a
              /\ log[c].ev = "call" /\ log[c].kind = log[i].kind
              /\ log[q].ev = "ask" /\ log[q].kind = log[i].kind
              /\ log[a].ev = "answer" /\ log[a].kind = log[i].kind
              /\ log[a].choice = AcceptLabel(log[i].kind)
              /\ SameInstance(log, log[i].kind, c, i)
    /\ \A a \in 1..Len(log), i \in 1..Len(log) :
         ( /\ log[a].ev = "answer"
           /\ log[a].choice # AcceptLabel(log[a].kind)
           /\ log[i].ev = "apply" /\ log[i].kind = log[a].kind )
         => IF a < i THEN ~SameInstance(log, log[a].kind, a, i)
            ELSE ~SameInstance(log, log[a].kind, i, a)
    /\ hs[h].pc = "u_apply" =>
         Len(log) > 0 /\ log[Len(log)].ev = "apply" /\ log[Len(log)].kind = "usages"
    /\ hs[h].pc = "d_apply" =>
         Len(log) > 0 /\ log[Len(log)].ev = "apply"
                      /\ log[Len(log)].kind = "definition"

\* one save event in which an edit was applied for one prompt and another
\* prompt was declined
C1_Witness ==
  \E h \in Handlers :
    LET log == hs[h].log IN
    /\ \E i \in 1..Len(log) : log[i].ev = "apply"
    /\ \E a \in 1..Len(log) :
         log[a].ev = "answer" /\ log[a].choice \in {cancelLabel, Undefined}

\* the definition of a component in a text, as the locator patterns find it,
\* with its normalized prop list
DefinitionIn(text, name) ==
  Bind(Locate(text, name), LAMBDA m :
    [found |-> m.index # -1,
     props |-> IF m.index # -1 THEN NormalizeProps(m.group) ELSE <<>>])

\* the tags of a component in a text, in order: the attribute names of each
RECURSIVE TagNames(_, _, _)
TagNames(text, from, name) ==
  Bind(TagExec(text, from, name), LAMBDA m :
    IF m.index = -1 THEN <<>>
    ELSE <<SeqToSet(PropNamesFrom(m.group, 0))>>
         \o TagNames(text, m.index + Len(m.full), name))

DefinitionWidened(before, after) ==
  before.found => after.found /\ SeqToSet(before.props) \subseteq SeqToSet(after.props)

TagsWidened(before, after) ==
  /\ Len(after) = Len(before)
  /\ \A k \in 1..Len(before) : before[k] \subseteq after[k]

\* from the texts fs to the texts fs2, no definition and no usage of the
\* component loses a prop name
Widens(fs, fs2, name) ==
  \A i \in 1..Len(fs) :
    /\ DefinitionWidened(DefinitionIn(fs[i].text, name),
                         DefinitionIn(fs2[i].text, name))
    /\ TagsWidened(TagNames(fs[i].text, 0, name), TagNames(fs2[i].text, 0, name))

\* C2: widening only.  When an accepted replacement of a definition's prop
\* list or an accepted insertion into usage tags is applied, the definition
\* and every usage tag of the component have, after the step, every prop name
\* they had before it.
C2_WideningOnly ==
  [][\A h \in Handlers :
       /\ (hs[h].pc = "d_apply" /\ hs'[h].pc # "d_apply")
            => Widens(files, files', hs[h].usage.componentName)
       /\ (hs[h].pc = "u_apply" /\ hs'[h].pc # "u_apply")
            => Widens(files, files', hs[h].componentName)]_vars

\* the edit set a run of syncComponentPropsUsages accumulates over the texts fs
RECURSIVE ScanAll(_, _, _, _)
ScanAll(fs, i, name, props) ==
  IF i > Len(fs) THEN <<>>
  ELSE (IF GlobMatch(fs[i].path) /\ ~isTestFile(fs[i].path)
        THEN ScanTags(fs[i].text, 0, i, name, props) ELSE <<>>)
       \o ScanAll(fs, i + 1, name, props)

\* C3: idempotence of Definition->Usage.  Right after the accepted edit set of
\* a run of syncComponentPropsUsages is applied, a run with the same component
\* name and the same prop list accumulates an empty edit set.
C3_SecondRunEmpty ==
  [][\A h \in Handlers :
       (hs[h].pc = "u_apply" /\ hs'[h].pc # "u_apply")
         => ScanAll(files', 1, hs[h].componentName, hs[h].props) = <<>>]_vars

\* the path contains .test. or .spec. or lies under a segment named test,
\* tests or __tests__ (the segments are separated by "/" or "\")
TestPath(path) ==
  \/ Includes(path, ".test.") \/ Includes(path, ".spec.")
  \/ Bind(Split(SlashPath(path), "/"), LAMBDA segs :
       \E k \in 1..(Len(segs) - 1) : segs[k] \in {"test", "tests", "__tests__"})

\* the text the document of the pool with this path starts with
PoolText(path) == FilePool[CHOOSE k \in 1..Len(FilePool) : FilePool[k].path = path].text

OnNoTestFile(fs, edit) == \A k \in 1..Len(edit) : ~TestPath(fs[edit[k].uri].path)

\* C4: test-file exclusion.  No planned, requested or applied edit targets a
\* test file, no test file is the location of a definition, and the text of
\* every test file is the text it started with.
C4_TestFilesUntouched ==
  /\ \A i \in 1..Len(files) :
       TestPath(files[i].path) => files[i].text = PoolText(files[i].path)
  /\ \A h \in Handlers :
       /\ OnNoTestFile(files, hs[h].edit)
       /\ \A k \in 1..Len(hs[h].log) : OnNoTestFile(files, hs[h].log[k].edit)
       /\ hs[h].targetUri # 0 => ~TestPath(files[hs[h].targetUri].path)

\* an edit set is being applied while a test file of the workspace has a tag
\* of the component that lacks one of the props
C4_Witness ==
  \E h \in Handlers, i \in 1..Len(files) :
    /\ hs[h].pc = "u_apply"
    /\ TestPath(files[i].path)
    /\ ScanTags(files[i].text, 0, i, hs[h].componentName, hs[h].props) # <<>>

\* the positions of the calls of syncDefinitionFromUsage in a history
DefinitionCalls(log) ==
  {k \in 1..Len(log) : log[k].ev = "call" /\ log[k].kind = "definition"}

\* C5: de-duplication.  In the history of one save event the calls of
\* syncDefinitionFromUsage have pairwise distinct component names, each call
\* passes the first usage of its name in the scanned usages, and when the
\* handler is idle again every name of the scanned usages has had its call
\* (whatever earlier save events have seen).
C5_OncePerNamePerSave ==
  \A h \in Handlers :
    LET log    == hs[h].log
        usages == hs[h].usages
        calls  == DefinitionCalls(hs[h].log)
    IN /\ \A a \in calls, b \in calls : a # b => log[a].name # log[b].name
       /\ \A c \in calls :
            \E j \in 1..Len(usages) :
               /\ usages[j].componentName = log[c].name
               /\ usages[j].props = log[c].props
               /\ \A i \in 1..(j - 1) : usages[i].componentName # log[c].name
       /\ hs[h].seen = {log[c].name : c \in calls}
       /\ hs[h].pc = "idle" =>
            \A j \in 1..Len(usages) :
               \E c \in calls : log[c].name = usages[j].componentName

\* the second save event is over: its document has two usages of one
\* component and its history has the call for that component
C5_Witness ==
  \E h \in Handlers :
    /\ saves = 2 /\ hs[h].pc = "idle"
    /\ \E i \in 1..Len(hs[h].usages), j \in 1..Len(hs[h].usages) :
         /\ i < j
         /\ hs[h].usages[i].componentName = hs[h].usages[j].componentName
         /\ hs[h].usages[i].props # hs[h].usages[j].props
         /\ \E c \in DefinitionCalls(hs[h].log) :
              hs[h].log[c].name = hs[h].usages[i].componentName

\* C6: order preservation.  Whenever syncDefinitionFromUsage rewrites a
\* definition, the prop list it writes is the complete normalized prop list
\* of the located definition (same names, same order, duplicates included)
\* followed by the props of the usage that are new to it, in the order of
\* the usage.
C6_PrefixPreserved ==
  \A h \in Handlers :
    hs[h].pc = "d_apply" =>
      NormalizeProps(hs[h].edit[1].text) =
        NormalizeProps(hs[h].propsRaw)
          \o FilterNotIn(Dedup(hs[h].usage.props),
                         SeqToSet(NormalizeProps(hs[h].propsRaw)))

\* C7: already in sync is a silent no-op.  Every confirmation that
\* syncDefinitionFromUsage requests names at least one usage prop that is new
\* to the definition: when the usage has none, it asks nothing (and so applies
\* nothing and does not call syncComponentPropsUsages).
C7_AskOnlyForNewProps ==
  \A h \in Handlers :
    \A k \in 1..Len(hs[h].log) :
       (hs[h].log[k].ev = "ask" /\ hs[h].log[k].kind = "definition")
         => hs[h].log[k].props # <<>>

\* C8: declining is all-or-nothing.  The step in which the confirmation of
\* syncComponentPropsUsages gets an answer other than its accept label changes
\* no file, leaves every text as it was when the invocation began, and the
\* invocation returns at once without calling applyEdit.
C8_DeclineDiscardsAll ==
  [][\A h \in Handlers :
       ( /\ hs[h].pc = "u_ask"
         /\ Len(hs'[h].log) > Len(hs[h].log)
         /\ hs'[h].log[Len(hs[h].log) + 1].choice # applyLabelUsages )
       => /\ files' = files
          /\ Texts(files') = hs[h].texts0
          /\ hs'[h].pc # "u_apply"
          /\ Len(hs'[h].log) >= Len(hs[h].log) + 2
          /\ hs'[h].log[Len(hs[h].log) + 2].ev = "return"
          /\ hs'[h].log[Len(hs[h].log) + 2].kind = "usages"]_vars

\* a confirmation that covered two insertions was declined
C8_Witness ==
  \E h \in Handlers :
    \E k \in 2..Len(hs[h].log) :
       /\ hs[h].log[k].ev = "answer" /\ hs[h].log[k].kind = "usages"
       /\ hs[h].log[k].choice \in {cancelLabel, Undefined}
       /\ hs[h].log[k - 1].ev = "ask" /\ Len(hs[h].log[k - 1].edit) >= 2
       /\ Texts(files) = hs[h].texts0

\* some workspace file that is not a test file has a definition of the
\* component, in function form or in arrow form
HasDefinition(fs, name) ==
  \E i \in 1..Len(fs) :
    /\ GlobMatch(fs[i].path) /\ ~TestPath(fs[i].path)
    /\ \E o \in 0..Len(fs[i].text) :
          \/ DefAt(fs[i].text, o, name, "function").index # -1
          \/ DefAt(fs[i].text, o, name, "arrow").index # -1

\* C9: definition not found is a no-op.  While syncDefinitionFromUsage
\* searches for a component that no file other than a test file defines, no
\* step changes a file, requests a confirmation or applies an edit; a
\* confirmation is pending or an edit is being applied only for a component
\* that has such a definition.
C9_NotFoundNoOp ==
  [][\A h \in Handlers :
       /\ ( /\ hs[h].pc \in {"d_find", "d_open"}
            /\ ~HasDefinition(files, hs[h].usage.componentName) )
          => /\ files' = files
             /\ hs'[h].pc \notin {"d_ask", "d_reopen", "d_apply"}
             /\ \A k \in (Len(hs[h].log) + 1)..Len(hs'[h].log) :
                   hs'[h].log[k].ev \notin {"ask", "apply"}
       /\ hs'[h].pc \in {"d_ask", "d_reopen", "d_apply"}
          => HasDefinition(files', hs'[h].usage.componentName)]_vars

\* a call of syncDefinitionFromUsage returned at once for a component that
\* only a test file of the workspace defines
C9_Witness ==
  \E h \in Handlers :
    \E k \in 1..(Len(hs[h].log) - 1) :
       /\ hs[h].log[k].ev = "call" /\ hs[h].log[k].kind = "definition"
       /\ hs[h].log[k + 1].ev = "return" /\ hs[h].log[k + 1].kind = "definition"
       /\ ~HasDefinition(files, hs[h].log[k].name)
       /\ \E i \in 1..Len(files) :
            /\ TestPath(files[i].path)
            /\ Locate(files[i].text, hs[h].log[k].name).index # -1

\* the end of the name of a tag of the component that starts at offset i
TagNameEnd(i, name) == i + 1 + Len(name)

\* the offset of the first ">" at or after the end of the name of the tag
\* that starts at offset i, -1 when there is none
ClosingGt(text, i, name) == IndexOfFrom(text, ">", TagNameEnd(i, name))

\* the offsets where "<Name" stands at a word boundary with a ">" after it
TagStarts(text, name) ==
  {i \in 0..(Len(text) - 1) :
     /\ At(text, i) = "<"
     /\ Lit(text, i, "<" \o name) = TagNameEnd(i, name)
     /\ At(text, TagNameEnd(i, name)) \notin WordCh
     /\ ClosingGt(text, i, name) # -1}

\* the starts that lie in no earlier tag
Outermost(text, name, starts) ==
  {i \in starts : \A i2 \in starts : i2 < i => ClosingGt(text, i2, name) < i}

\* the occurrences of the tag of the component in the text
Occurrences(text, name) == Outermost(text, name, TagStarts(text, name))

\* the offset of the closing of the occurrence at i: of its "/>" or its ">"
ClosingOf(text, i, name) ==
  Bind(ClosingGt(text, i, name), LAMBDA j :
    IF j - 1 >= TagNameEnd(i, name) /\ At(text, j - 1) = "/" THEN j - 1 ELSE j)

\* the props of the list that are no attribute name of the occurrence at i
MissingAt(text, i, name, props) ==
  FilterNotIn(props,
    SeqToSet(PropNamesFrom(
      Sub(text, TagNameEnd(i, name), ClosingOf(text, i, name)), 0)))

Placeholders(missing) ==
  Join([k \in 1..Len(missing) |-> " " \o missing[k] \o "={/* TODO: completar */}"], "")

InsertionAt(uri, pos, missing) ==
  [uri |-> uri, start |-> pos, end |-> pos, text |-> Placeholders(missing)]

\* the insertions the claim expects in the document uri: one for each
\* occurrence that lacks a prop of the list
ExpectedIn(uri, text, name, props) ==
  {InsertionAt(uri, PositionAt(text, ClosingOf(text, o, name)),
               MissingAt(text, o, name, props)) :
     o \in {o2 \in Occurrences(text, name) :
              MissingAt(text, o2, name, props) # <<>>}}

\* the event that ends a scan is the confirmation of exactly the expected
\* insertions, or the return when none is expected
Planned(ev, expected) ==
  \/ /\ ev.ev = "ask" /\ ev.kind = "usages"
     /\ expected # {}
     /\ SeqToSet(ev.edit) = expected
     /\ Len(ev.edit) = Cardinality(expected)
  \/ /\ ev.ev = "return" /\ ev.kind = "usages"
     /\ expected = {}

\* the insertions the claim expects over the files that are no test files
ExpectedInsertions(fs, name, props) ==
  UNION {ExpectedIn(i, fs[i].text, name, props) :
           i \in {k \in 1..Len(fs) :
                    GlobMatch(fs[k].path) /\ ~TestPath(fs[k].path)}}

\* C10: per-occurrence planning.  When the scan of syncComponentPropsUsages
\* ends, its edit set has exactly one insertion for each occurrence of the tag
\* in a non-test file that lacks a prop of the list, placed right before the
\* closing of that occurrence (its "/>" or ">", the first ">" after the name),
\* with the placeholders of the missing props in the order of the list, and
\* nothing else; it asks for a confirmation when that set is not empty and
\* returns when it is.
C10_OneInsertionPerOccurrence ==
  [][\A h \in Handlers :
       ( /\ hs[h].pc \in {"u_find", "u_open"}
         /\ Len(hs'[h].log) > Len(hs[h].log) )
       => Planned(hs'[h].log[Len(hs[h].log) + 1],
                  ExpectedInsertions(files, hs[h].componentName, hs[h].props))]_vars

\* a confirmation is pending for one insertion into a file that has two
\* occurrences of the tag, one of them on two lines
C10_Witness ==
  \E h \in Handlers :
    /\ hs[h].pc = "u_ask"
    /\ Len(hs[h].edit) = 1
    /\ hs[h].edit[1].start.line = 1
    /\ Cardinality(Occurrences(files[hs[h].edit[1].uri].text, hs[h].componentName)) = 2

\* the step of handler h makes syncDefinitionFromUsage return after its
\* confirmation was accepted, and the confirmation of the propagation it
\* invoked, when one was requested, was accepted too
AcceptedReturn(h) ==
  /\ hs[h].caller = "definition"
  /\ hs[h].pc \in {"u_find", "u_open", "u_ask", "u_apply"}
  /\ \E k \in (Len(hs[h].log) + 1)..Len(hs'[h].log) :
       hs'[h].log[k].ev = "return" /\ hs'[h].log[k].kind = "definition"
  /\ \A k \in (Len(hs[h].log) + 1)..Len(hs'[h].log) :
       hs'[h].log[k].ev = "answer" => hs'[h].log[k].choice = applyLabelUsages

\* C11: propagation after a definition update.  When syncDefinitionFromUsage
\* returns after its confirmation was accepted, the located definition's prop
\* list is the union list, and a run of Definition->Usage for the component
\* with the union list finds no tag of a non-test file lacking a prop of it.
C11_PropagatedAfterUpdate ==
  [][\A h \in Handlers :
       AcceptedReturn(h) =>
         /\ DefinitionIn(files'[hs[h].targetUri].text,
                         hs[h].usage.componentName).props = hs[h].allProps
         /\ ScanAll(files', 1, hs[h].usage.componentName, hs[h].allProps) = <<>>]_vars

\* the offset, inside the matched text, of the captured props group: the
\* character after the opening brace of the destructuring parameter (both
\* patterns have no brace before it)
GroupOffset(m) == IndexOf(m.full, "{") + 1

\* the text with the span of `len` characters at offset `start` replaced
SpanReplaced(text, start, len, new) ==
  Sub(text, 0, start) \o new \o Sub(text, start + len, Len(text))

\* C12: exact replacement span.  When the accepted replacement of a
\* definition's prop list is applied, the text of the target file after the
\* step is its text before the step with exactly the captured props group, at
\* its position inside the match, replaced by the comma-joined union list, and
\* no other file changes.
C12_ExactReplacementSpan ==
  [][\A h \in Handlers :
       (hs[h].pc = "d_apply" /\ hs'[h].pc # "d_apply") =>
         /\ files'[hs[h].targetUri].text =
              SpanReplaced(files[hs[h].targetUri].text,
                           hs[h].match.index + GroupOffset(hs[h].match),
                           Len(hs[h].propsRaw), Join(hs[h].allProps, ", "))
         /\ \A i \in 1..Len(files) :
              i # hs[h].targetUri => files'[i] = files[i]]_vars

IsEv(e, ev, kind) == e.ev = ev /\ e.kind = kind

\* the history of the Usage->Definition instance called at position c: up to
\* its return, or up to the end of the history while it has not returned
InstanceAt(log, c) ==
  Bind(Least({e \in (c + 1)..Len(log) : IsEv(log[e], "return", "definition")}),
       LAMBDA e : SubSeq(log, c, IF e = 0 THEN Len(log) ELSE e))

\* the history of one instance follows the state machine:
\*   call, return                                  (NoDefFound, InSync)
\*   call, ask, answer(refusal), return            (Declined)
\*   call, ask, answer(accept), apply, call usages(name, union list),
\*         ..., return usages, return              (Accepted)
\* and the confirmation is asked for a non-empty list of new props
FollowsStateMachine(inst) ==
  Bind(Len(inst), LAMBDA n :
    /\ n >= 2 => \/ IsEv(inst[2], "return", "definition")
                 \/ IsEv(inst[2], "ask", "definition") /\ inst[2].props # <<>>
    /\ n >= 3 => IsEv(inst[3], "answer", "definition")
    /\ n >= 4 => IF inst[3].choice = applyLabelDefinition
                 THEN IsEv(inst[4], "apply", "definition")
                 ELSE IsEv(inst[4], "return", "definition")
    /\ n >= 5 => /\ IsEv(inst[5], "call", "usages")
                 /\ inst[5].name = inst[1].name
                 /\ inst[5].props = inst[4].props
    /\ \A k \in 6..n :
         \/ inst[k].kind = "usages" /\ inst[k].ev # "call"
         \/ k = n /\ IsEv(inst[k], "return", "definition")
                  /\ IsEv(inst[k - 1], "return", "usages")
    /\ Cardinality({k \in 6..n : IsEv(inst[k], "return", "usages")}) <= 1)

\* C13: the state machine of Usage->Definition.  Every instance goes from its
\* call to its return with no prompt when no definition is found or the
\* definition already has the usage's props, and with no mutation when the
\* prompt is declined; a file changes inside an instance only by the accepted
\* replacement, which is followed, before the return, by exactly one call of
\* syncComponentPropsUsages with the component name and the union of the
\* definition's and the usage's props; no other path of the instance calls it.
C13_StateMachine ==
  [][\A h \in Handlers :
       /\ \A c \in 1..Len(hs'[h].log) :
            IsEv(hs'[h].log[c], "call", "definition")
              => FollowsStateMachine(InstanceAt(hs'[h].log, c))
       /\ (hs[h].pc \in {"d_find", "d_open", "d_ask", "d_reopen"}
             /\ hs'[h] # hs[h]) => files' = files
       /\ (hs[h].pc = "d_apply" /\ hs'[h].pc # "d_apply") =>
            /\ IsEv(hs'[h].log[Len(hs'[h].log)], "call", "usages")
            /\ hs'[h].log[Len(hs'[h].log)].name = hs[h].usage.componentName
            /\ SeqToSet(hs'[h].log[Len(hs'[h].log)].props) =
                 SeqToSet(DefinitionIn(files[hs[h].targetUri].text,
                                       hs[h].usage.componentName).props)
                   \cup SeqToSet(hs[h].usage.props)
            /\ files' # files]_vars

\* the definition syncDefinitionFromUsage locates for a component: the one of
\* the first enumerated file that is not a test file and defines it
LocatedDefinition(fs, name) ==
  Bind(Least({i \in 1..Len(fs) :
                /\ GlobMatch(fs[i].path) /\ ~TestPath(fs[i].path)
                /\ DefinitionIn(fs[i].text, name).found}), LAMBDA i :
    IF i = 0 THEN [found |-> FALSE, props |-> <<>>]
    ELSE DefinitionIn(fs[i].text, name))

\* the definition has every prop name of every tag of the component in the
\* text, and no tag of a non-test file lacks a prop of the definition
Agree(fs, text, name, def) ==
  /\ \A k \in 1..Len(TagNames(text, 0, name)) :
       TagNames(text, 0, name)[k] \subseteq SeqToSet(def.props)
  /\ ScanAll(fs, 1, name, def.props) = <<>>

EveryAnswerAccepts(log) ==
  \A k \in 1..Len(log) :
    log[k].ev = "answer" => log[k].choice = AcceptLabel(log[k].kind)

\* C14: agreement after a fully accepted save.  When a handler is idle again
\* after a save in which every confirmation was accepted, every component
\* used with props in the saved document whose definition is found agrees with
\* its usages: the definition has every prop name of every tag of the
\* component in the saved document, and every tag of the component in a
\* non-test file has every prop of the definition.
C14_AgreementAfterAcceptedSave ==
  \A h \in Handlers :
    ( /\ hs[h].pc = "idle" /\ hs[h].doc # 0
      /\ files[hs[h].doc].languageId \in LanguageIds
      /\ EveryAnswerAccepts(hs[h].log) )
    => \A k \in 1..Len(getUsagesInDocument(files[hs[h].doc].text)) :
         Bind(getUsagesInDocument(files[hs[h].doc].text)[k].componentName,
              LAMBDA name :
           LocatedDefinition(files, name).found
             => Agree(files, files[hs[h].doc].text, name,
                      LocatedDefinition(files, name)))

\* the first phase in a history: what precedes the first call of
\* syncDefinitionFromUsage
FirstPhase(log) ==
  Bind(Least({c \in 1..Len(log) : IsEv(log[c], "call", "definition")}),
       LAMBDA c : IF c = 0 THEN log ELSE SubSeq(log, 1, c - 1))

SecondPhaseStarted(log) ==
  \E c \in 1..Len(log) : IsEv(log[c], "call", "definition")

WithProps(components) ==
  SelectSeq(components, LAMBDA c : Len(c.props) > 0)

\* the calls of the first phase are, in order, the components with props,
\* each call after the return of the one before, and all of them are made and
\* have returned when the first phase is over
InScanOrder(log, components, over) ==
  Bind(SelectSeq(FirstPhase(log), LAMBDA e : IsEv(e, "call", "usages")),
       LAMBDA calls :
    /\ Len(calls) <= Len(WithProps(components))
    /\ \A k \in 1..Len(calls) :
         /\ calls[k].name = WithProps(components)[k].name
         /\ calls[k].props = WithProps(components)[k].props
    /\ \A k \in 3..Len(FirstPhase(log)) :
         IsEv(log[k], "call", "usages") => IsEv(log[k - 1], "return", "usages")
    /\ over => /\ Len(calls) = Len(WithProps(components))
               /\ Len(FirstPhase(log)) > 1
                    => IsEv(log[Len(FirstPhase(log))], "return", "usages"))

\* C15: phase ordering within one save event.  The components are scanned
\* from the saved document when the event fires; syncComponentPropsUsages is
\* called for each component with props, in scan order, each call after the
\* return of the one before, and for no component without props; the first
\* call of syncDefinitionFromUsage comes after the last of them has returned,
\* no call of the first phase follows it, and it is made for the first usage
\* of the saved document as the document is at that moment.
C15_PhaseOrdering ==
  [][\A h \in Handlers :
       /\ (saves' # saves /\ hs'[h] # hs[h]) =>
            hs'[h].components =
              IF files[hs'[h].doc].languageId \in LanguageIds
              THEN getComponentsInDocument(files[hs'[h].doc].text) ELSE <<>>
       /\ InScanOrder(hs'[h].log, hs'[h].components,
                      SecondPhaseStarted(hs'[h].log) \/ hs'[h].pc = "idle")
       /\ \A k \in 2..Len(hs'[h].log) :
            ( /\ IsEv(hs'[h].log[k], "call", "usages")
              /\ k > Len(FirstPhase(hs'[h].log)) )
            => IsEv(hs'[h].log[k - 1], "apply", "definition")
       /\ ( /\ SecondPhaseStarted(hs'[h].log)
            /\ saves' # saves \/ ~SecondPhaseStarted(hs[h].log) ) =>
            /\ hs'[h].usages = getUsagesInDocument(files'[hs'[h].doc].text)
            /\ hs'[h].log[Len(FirstPhase(hs'[h].log)) + 1].name =
                 hs'[h].usages[1].componentName
            /\ hs'[h].log[Len(FirstPhase(hs'[h].log)) + 1].props =
                 hs'[h].usages[1].props]_vars

\* the second phase has started on usages that carry a prop the first phase
\* inserted into the saved document
C15_Witness ==
  \E h \in Handlers :
    /\ SecondPhaseStarted(hs[h].log)
    /\ \E k \in 1..Len(FirstPhase(hs[h].log)) :
         IsEv(hs[h].log[k], "apply", "usages")
    /\ hs[h].usages # getUsagesInDocument(PoolText(files[hs[h].doc].path))

\* the files findFiles gave that are not test files are all behind the
\* position of the loop
ScanFinished(fs, r) ==
  /\ r.fileList = FindFiles(fs)
  /\ \A j \in 1..Len(r.fileList) :
       j > r.fi => TestPath(fs[r.fileList[j]].path)

\* C16: one confirmation per Definition->Usage invocation.  A confirmation of
\* syncComponentPropsUsages is requested only when the loop over the files
\* has passed every file that is not a test file, for the whole non-empty
\* edit set the scan of these files gives; an invocation that returns without
\* a confirmation had nothing to insert in any of them; and no invocation
\* requests a second confirmation.
C16_OneConfirmationAfterScan ==
  [][\A h \in Handlers :
       /\ \A k \in (Len(hs[h].log) + 1)..Len(hs'[h].log) :
            /\ IsEv(hs'[h].log[k], "ask", "usages") =>
                 /\ hs[h].pc \in {"u_find", "u_open"}
                 /\ ScanFinished(files, hs'[h])
                 /\ hs'[h].log[k].edit # <<>>
                 /\ hs'[h].log[k].edit =
                      ScanAll(files, 1, hs[h].componentName, hs[h].props)
            /\ ( /\ IsEv(hs'[h].log[k], "return", "usages")
                 /\ hs[h].pc \in {"u_find", "u_open"}
                 /\ k = Len(hs[h].log) + 1 ) =>
                 ScanAll(files, 1, hs[h].componentName, hs[h].props) = <<>>
       /\ hs'[h].pc = "u_ask" =>
            IsEv(hs'[h].log[Len(hs'[h].log)], "ask", "usages")
       /\ \A a \in 1..Len(hs'[h].log), b \in 1..Len(hs'[h].log) :
            ( /\ a < b
              /\ IsEv(hs'[h].log[a], "ask", "usages")
              /\ IsEv(hs'[h].log[b], "ask", "usages") )
            => ~SameInstance(hs'[h].log, "usages", a, b)]_vars

\* a confirmation is pending after two files that are not test files were
\* scanned, the first of which already gave an insertion
C16_Witness ==
  \E h \in Handlers :
    /\ hs[h].pc = "u_ask"
    /\ hs[h].fi >= 2
    /\ \A j \in 1..hs[h].fi : ~TestPath(files[hs[h].fileList[j]].path)
    /\ hs[h].edit[1].uri = hs[h].fileList[1]

\* the offsets of a text at which a definition of the component starts, in
\* the given form
DefOffsets(text, name, form) ==
  {o \in 0..Len(text) : DefAt(text, o, name, form).index # -1}

Defines(text, name) ==
  DefOffsets(text, name, "function") \cup DefOffsets(text, name, "arrow") # {}

\* the leftmost definition in function form when the text has one, the
\* leftmost one in arrow form otherwise
ChosenMatch(text, name) ==
  IF DefOffsets(text, name, "function") # {}
  THEN DefAt(text, Least(DefOffsets(text, name, "function")), name, "function")
  ELSE DefAt(text, Least(DefOffsets(text, name, "arrow")), name, "arrow")

\* C17: the choice of the definition locator.  While the files are opened, no
\* file that is not a test file and was enumerated before the open one
\* defines the component; the step that opens a file which defines it opens
\* no further file; and the located definition is, in the first enumerated
\* file that is not a test file and defines the component, the leftmost
\* function-form definition when there is one and the leftmost arrow-form
\* definition otherwise.
C17_LocatorChoice ==
  [][\A h \in Handlers :
       /\ hs[h].pc = "d_open" =>
            /\ ~TestPath(files[hs[h].fileList[hs[h].fi]].path)
            /\ \A j \in 1..(hs[h].fi - 1) :
                 ~TestPath(files[hs[h].fileList[j]].path)
                   => ~Defines(files[hs[h].fileList[j]].text,
                               hs[h].usage.componentName)
       /\ ( /\ hs[h].pc = "d_open" /\ hs'[h] # hs[h]
            /\ Defines(files[hs[h].fileList[hs[h].fi]].text,
                       hs[h].usage.componentName) )
          => /\ ~(hs'[h].pc = "d_open" /\ hs'[h].log = hs[h].log)
             /\ (hs'[h].pc = "d_ask" /\ Len(hs'[h].log) = Len(hs[h].log) + 1)
                  => hs'[h].targetUri = hs[h].fileList[hs[h].fi]
       /\ ( /\ hs[h].pc = "d_open" /\ hs'[h] # hs[h]
            /\ ~Defines(files[hs[h].fileList[hs[h].fi]].text,
                        hs[h].usage.componentName) )
          => ~(hs'[h].pc = "d_ask" /\ Len(hs'[h].log) = Len(hs[h].log) + 1)
       /\ hs[h].pc \in {"d_ask", "d_reopen", "d_apply"} =>
            hs[h].match = ChosenMatch(files[hs[h].targetUri].text,
                                      hs[h].usage.componentName)]_vars

\* a confirmation is pending for a definition located in a file that has the
\* arrow form before the function form, while a later file that is not a
\* test file defines the component too
C17_Witness ==
  \E h \in Handlers :
    /\ hs[h].pc = "d_ask"
    /\ DefOffsets(files[hs[h].targetUri].text, hs[h].usage.componentName,
                  "function") # {}
    /\ \E o \in DefOffsets(files[hs[h].targetUri].text,
                           hs[h].usage.componentName, "arrow") :
         o < hs[h].match.index
    /\ \E i \in 1..Len(files) :
         /\ i > hs[h].targetUri /\ ~TestPath(files[i].path)
         /\ Defines(files[i].text, hs[h].usage.componentName)

\* C18: snapshot validity within a single save event.  With one save event in
\* flight, when the insertions of syncComponentPropsUsages or the replacement
\* of syncDefinitionFromUsage are applied, the text of every target file is
\* the text the handler read when it computed the offsets, and the edit set
\* is what a scan of the files as they are at that moment gives; no step of a
\* pass before the one that applies its edit set changes a file.
C18_SnapshotValid ==
  [][\A h \in Handlers :
       /\ (hs[h].pc = "u_apply" /\ hs'[h] # hs[h]) =>
            /\ OnSnapshot(files, hs[h])
            /\ hs[h].edit = ScanAll(files, 1, hs[h].componentName, hs[h].props)
       /\ (hs[h].pc = "d_apply" /\ hs'[h] # hs[h]) =>
            /\ OnSnapshot(files, hs[h])
            /\ hs[h].match = Locate(files[hs[h].targetUri].text,
                                    hs[h].usage.componentName)
       /\ (hs[h].pc \notin {"idle", "u_apply", "d_apply"} /\ hs'[h] # hs[h])
            => files' = files]_vars

\* the insertions of the propagation that follows an accepted definition
\* update are being applied: they were computed after the replacement had
\* changed the file
C18_Witness ==
  \E h \in Handlers :
    /\ hs[h].pc = "u_apply"
    /\ hs[h].caller = "definition"
    /\ \E k \in 1..Len(hs[h].edit) : hs[h].edit[k].uri = hs[h].targetUri
    /\ OnSnapshot(files, hs[h])

\* ------------------------------------------------------------------------
\* Save events that are not coordinated: onDidSaveTextDocument fires whenever
\* a document is saved, whatever the handlers of earlier events are doing
\* ------------------------------------------------------------------------

\* the idle handlers are interchangeable: the first one takes the event
FirstIdle(h) == h = Least({g \in Handlers : hs[g].pc = "idle"})

NextConc ==
  \/ \E h \in Handlers : \E d \in 1..Len(files) : FirstIdle(h) /\ SaveEvent(h, d)
  \/ \E h \in Handlers : Step(h)

\* the handlers are interleaved on the workspaces of a single document of the
\* main project
InitConc ==
  /\ files \in {<<FilePool[k]>> : k \in MainProject}
  /\ hs = [h \in Handlers |-> IdleHandler]
  /\ saves = 0
  /\ resumed = [h \in Handlers |-> 0]

SpecConc == InitConc /\ [][NextConc]_vars

\* C19: uncoordinated save events.  The handlers share nothing but the
\* files: a step of one handler leaves the position, the planned edit set and
\* the snapshot of every other handler as they are, also when it changes a
\* file the other one has planned edits for; and a handler applies its edit
\* set with the offsets it computed, whether or not the target files still
\* have the text these were computed against.
C19_Uncoordinated ==
  [][\A h \in Handlers :
       /\ hs'[h] # hs[h] => \A g \in Handlers : g # h => hs'[g] = hs[g]
       /\ (hs[h].pc \in {"u_apply", "d_apply"} /\ hs'[h] # hs[h]) =>
            files' = ApplyEdit(files, hs[h].edit)]_vars

\* a handler is about to apply an edit set to a file that another handler
\* has changed since the first one read it: both had read the file before
\* either edit set was applied
C19_Witness ==
  \E h \in Handlers, g \in Handlers :
    /\ h # g
    /\ hs[h].pc \in {"u_apply", "d_apply"}
    /\ \E k \in 1..Len(hs[h].edit) :
         /\ files[hs[h].edit[k].uri].text # hs[h].snapshot[hs[h].edit[k].uri]
         /\ \E a \in 1..Len(hs[g].log) :
              /\ hs[g].log[a].ev = "apply"
              /\ \E e \in 1..Len(hs[g].log[a].edit) :
                   hs[g].log[a].edit[e].uri = hs[h].edit[k].uri
         /\ hs[g].snapshot[hs[h].edit[k].uri] = hs[h].snapshot[hs[h].edit[k].uri]

\* ------------------------------------------------------------------------
\* Handlers whose awaited operations all resolve: the enumeration of the
\* files, the opening of a document and the application of an edit set
\* complete, and every prompt is answered.  A handler that is not idle awaits
\* one of them, and each of its steps is a resumption.
\* ------------------------------------------------------------------------

SpecFair == Init /\ [][Next]_vars /\ \A h \in Handlers : WF_resumed(Resume(h))

\* the calls of a protocol that have not returned at the end of a history
OpenCalls(log, kind) ==
  Cardinality({k \in 1..Len(log) : IsEv(log[k], "call", kind)})
    - Cardinality({k \in 1..Len(log) : IsEv(log[k], "return", kind)})

\* syncDefinitionFromUsage is never called while a call of
\* syncComponentPropsUsages has not returned, and at most one call of each
\* is open: the save handler calls one of them, and only
\* syncDefinitionFromUsage calls the other
DepthAtMostTwo(log) ==
  /\ OpenCalls(log, "usages") \in {0, 1}
  /\ OpenCalls(log, "definition") \in {0, 1}
  /\ \A k \in 1..Len(log) :
       IsEv(log[k], "call", "definition")
         => OpenCalls(SubSeq(log, 1, k - 1), "usages") = 0

\* the confirmations of one save event: at most one per component defined in
\* the saved document and two per distinct component name used in it
ConfirmationsBounded(r) ==
  Cardinality({k \in 1..Len(r.log) : r.log[k].ev = "ask"})
    <= Len(r.components)
       + 2 * Cardinality({r.usages[k].componentName : k \in 1..Len(r.usages)})

\* C20: termination of a save event.  When every awaited operation resolves
\* and every prompt is answered, a handler that is not idle is idle again
\* later; syncDefinitionFromUsage is never called from inside
\* syncComponentPropsUsages, so that at most two calls are open at a time; and
\* the confirmations requested in one save event are at most the components
\* defined in the saved document plus twice the distinct component names
\* used in it.
C20_Termination ==
  /\ \A h \in Handlers : (hs[h].pc # "idle") ~> (hs[h].pc = "idle")
  /\ [](\A h \in Handlers :
          DepthAtMostTwo(hs[h].log) /\ ConfirmationsBounded(hs[h]))

\* a handler is idle again after a save event in which the propagation to the
\* usages was called from an accepted definition update and two
\* confirmations were requested
C20_Witness ==
  \E h \in Handlers :
    /\ hs[h].pc = "idle"
    /\ \E k \in 2..Len(hs[h].log) :
         /\ IsEv(hs[h].log[k], "call", "usages")
         /\ IsEv(hs[h].log[k - 1], "apply", "definition")
    /\ Cardinality({k \in 1..Len(hs[h].log) : hs[h].log[k].ev = "ask"}) >= 2

====
